---- MODULE Spec2Model ----
(***************************************************************************)
(* The Discovery client of generator/discovery:v1.gen.ts: the class        *)
(* Discovery with its two operations apisGetRest and apisList, the URL     *)
(* each hands to auth.request, and the promise each returns.               *)
(*                                                                         *)
(* Strings are sequences of one-character strings.  The scheme and         *)
(* authority of a base URL are kept as one leading token (Origin): the     *)
(* URL parser leaves a lower-case https origin as it is, and everything    *)
(* the operations append comes after it.                                   *)
(***************************************************************************)
EXTENDS Integers, Sequences, FiniteSets, TLC

VARIABLES auth, baseUrl, calls, requests

vars == <<auth, baseUrl, calls, requests>>

(***************************************************************************)
(* Bounds of the model.                                                    *)
(***************************************************************************)
\* longest api argument drawn in SpecUrl
MaxApiLen == 2
\* longest name option drawn from NameAlphabet in SpecUrl
MaxNameLen == 1
\* number of calls made on one client in Spec
MaxCalls == 2

(***************************************************************************)
(* Strings.                                                                *)
(***************************************************************************)
StringsUpTo(alphabet, n) == UNION {[1..k -> alphabet] : k \in 0..n}

Origin == "https://www.googleapis.com"

\* the one character U+005C (reverse solidus)
Backslash == "U+005C"

\* "https://www.googleapis.com/discovery/v1/", the constructor's default
DefaultBaseUrl == <<Origin, "/", "d", "i", "s", "c", "o", "v", "e", "r", "y", "/", "v", "1", "/">>

\* the base URLs a client is constructed with: absolute https URLs that end in
\* a path, with and without a trailing slash
BaseUrls == {DefaultBaseUrl, <<Origin, "/", "d">>}

Auths == {"Anonymous", "ServiceAccount"}

(***************************************************************************)
(* new URL(string) and url.href, after the URL Standard's basic URL parser *)
(* for a special scheme: path start state, path state, query state,        *)
(* fragment state, and the URL serializer.                                 *)
(***************************************************************************)
\* The percent-encode sets and PercentCode list the characters the model's
\* alphabets hold; the standard's sets also hold the C0 controls, the quotes,
\* the grave accent and everything above U+007E.
PercentCode ==
  [c \in {" ", "#", "&", "+", "/", "<", "=", ">", "?", Backslash, "{", "}", "%", ":"} |->
     CASE c = " "  -> <<"%", "2", "0">>
       [] c = "#"  -> <<"%", "2", "3">>
       [] c = "%"  -> <<"%", "2", "5">>
       [] c = "&"  -> <<"%", "2", "6">>
       [] c = "+"  -> <<"%", "2", "B">>
       [] c = "/"  -> <<"%", "2", "F">>
       [] c = ":"  -> <<"%", "3", "A">>
       [] c = "<"  -> <<"%", "3", "C">>
       [] c = "="  -> <<"%", "3", "D">>
       [] c = ">"  -> <<"%", "3", "E">>
       [] c = "?"  -> <<"%", "3", "F">>
       [] c = Backslash -> <<"%", "5", "C">>
       [] c = "{"  -> <<"%", "7", "B">>
       [] c = "}"  -> <<"%", "7", "D">>]

PathPercentEncodeSet == {" ", "#", "<", ">", "?", "{", "}"}
SpecialQueryPercentEncodeSet == {" ", "#", "<", ">"}
FragmentPercentEncodeSet == {" ", "<", ">"}

PercentEncodeAfter(c, encodeSet) == IF c \in encodeSet THEN PercentCode[c] ELSE <<c>>

RECURSIVE EncodeString(_, _)
EncodeString(s, encodeSet) ==
  IF s = <<>> THEN <<>>
  ELSE PercentEncodeAfter(Head(s), encodeSet) \o EncodeString(Tail(s), encodeSet)

IsSingleDotSegment(buffer) ==
  buffer \in {<<".">>, <<"%", "2", "e">>, <<"%", "2", "E">>}

IsDoubleDotSegment(buffer) ==
  buffer \in {<<".", ".">>,
              <<".", "%", "2", "e">>, <<".", "%", "2", "E">>,
              <<"%", "2", "e", ".">>, <<"%", "2", "E", ".">>,
              <<"%", "2", "e", "%", "2", "e">>, <<"%", "2", "E", "%", "2", "E">>,
              <<"%", "2", "e", "%", "2", "E">>, <<"%", "2", "E", "%", "2", "e">>}

\* shorten a URL's path (scheme is not file): drop the last segment, if any
ShortenPath(path) == IF path = <<>> THEN path ELSE SubSeq(path, 1, Len(path) - 1)

IsSlash(c) == c \in {"/", Backslash}

\* the path a finished segment leaves; atSlash: the segment ended at / or \
PathAfterSegment(path, buffer, atSlash) ==
  IF IsDoubleDotSegment(buffer)
    THEN IF atSlash THEN ShortenPath(path) ELSE Append(ShortenPath(path), <<>>)
    ELSE IF IsSingleDotSegment(buffer)
      THEN IF atSlash THEN path ELSE Append(path, <<>>)
      ELSE Append(path, buffer)

\* first index >= i of s holding a character of stops, or Len(s) + 1
RECURSIVE IndexOf(_, _, _)
IndexOf(s, i, stops) ==
  IF i > Len(s) THEN Len(s) + 1
  ELSE IF s[i] \in stops THEN i ELSE IndexOf(s, i + 1, stops)

FragmentState(s, i, url) ==
  [url EXCEPT !.hasFragment = TRUE,
              !.fragment = EncodeString(SubSeq(s, i, Len(s)), FragmentPercentEncodeSet)]

QueryState(s, i, url) ==
  LET e == IndexOf(s, i, {"#"})
      u == [url EXCEPT !.hasQuery = TRUE,
                       !.query = EncodeString(SubSeq(s, i, e - 1), SpecialQueryPercentEncodeSet)]
  IN IF e > Len(s) THEN u ELSE FragmentState(s, e + 1, u)

RECURSIVE PathState(_, _, _)
PathState(s, i, url) ==
  LET e == IndexOf(s, i, {"/", Backslash, "?", "#"})
      buffer == EncodeString(SubSeq(s, i, e - 1), PathPercentEncodeSet)
      atSlash == e <= Len(s) /\ IsSlash(s[e])
      u == [url EXCEPT !.path = PathAfterSegment(url.path, buffer, atSlash)]
  IN IF e > Len(s) THEN u
     ELSE IF atSlash THEN PathState(s, e + 1, u)
     ELSE IF s[e] = "?" THEN QueryState(s, e + 1, u)
     ELSE FragmentState(s, e + 1, u)

PathStartState(s, i, url) ==
  IF i <= Len(s) /\ IsSlash(s[i]) THEN PathState(s, i + 1, url) ELSE PathState(s, i, url)

\* new URL(s), for s an absolute URL whose first token is its origin
NewURL(s) ==
  PathStartState(s, 2, [origin |-> Head(s), path |-> <<>>,
                        hasQuery |-> FALSE, query |-> <<>>,
                        hasFragment |-> FALSE, fragment |-> <<>>])

RECURSIVE SerializePath(_)
SerializePath(path) ==
  IF path = <<>> THEN <<>> ELSE <<"/">> \o Head(path) \o SerializePath(Tail(path))

\* url.href: the URL serializer
Href(url) ==
  <<url.origin>> \o SerializePath(url.path)
    \o (IF url.hasQuery THEN <<"?">> \o url.query ELSE <<>>)
    \o (IF url.hasFragment THEN <<"#">> \o url.fragment ELSE <<>>)

(***************************************************************************)
(* url.searchParams: the application/x-www-form-urlencoded parser and      *)
(* serializer, and URLSearchParams.append.                                 *)
(***************************************************************************)
Letters ==
  {"a", "b", "c", "d", "e", "f", "g", "h", "i", "j", "k", "l", "m",
   "n", "o", "p", "q", "r", "s", "t", "u", "v", "w", "x", "y", "z"}
Digits == {"0", "1", "2", "3", "4", "5", "6", "7", "8", "9"}

\* the bytes the urlencoded byte serializer leaves as they are
UrlencodedUnchanged == Letters \cup Digits \cup {"*", "-", ".", "_"}

\* a serializer that escapes nothing
UrlencodedByteRaw(c) == <<c>>

UrlencodedByte(c) ==
  IF c = " " THEN <<"+">>
  ELSE IF c \in UrlencodedUnchanged THEN <<c>> ELSE PercentCode[c]

RECURSIVE UrlencodedSerializeString(_)
UrlencodedSerializeString(s) ==
  IF s = <<>> THEN <<>>
  ELSE UrlencodedByte(Head(s)) \o UrlencodedSerializeString(Tail(s))

\* the urlencoded serializer: name=value pairs joined by &
RECURSIVE UrlencodedSerialize(_)
UrlencodedSerialize(list) ==
  IF list = <<>> THEN <<>>
  ELSE UrlencodedSerializeString(Head(list)[1]) \o <<"=">>
         \o UrlencodedSerializeString(Head(list)[2])
         \o (IF Tail(list) = <<>> THEN <<>> ELSE <<"&">> \o UrlencodedSerialize(Tail(list)))

\* percent-decode, after + has become a space; a %XX outside PercentCode
\* stands for a character outside the model's alphabets and is kept as it is
RECURSIVE UrlencodedDecode(_)
UrlencodedDecode(s) ==
  IF s = <<>> THEN <<>>
  ELSE IF Head(s) = "+" THEN <<" ">> \o UrlencodedDecode(Tail(s))
  ELSE IF Head(s) = "%" /\ Len(s) >= 3
          /\ \E c \in DOMAIN PercentCode : PercentCode[c] = SubSeq(s, 1, 3)
    THEN <<CHOOSE c \in DOMAIN PercentCode : PercentCode[c] = SubSeq(s, 1, 3)>>
           \o UrlencodedDecode(SubSeq(s, 4, Len(s)))
  ELSE <<Head(s)>> \o UrlencodedDecode(Tail(s))

\* the urlencoded parser: split on &, skip empty pieces, split each at its first =
RECURSIVE UrlencodedParse(_)
UrlencodedParse(q) ==
  IF q = <<>> THEN <<>>
  ELSE LET e == IndexOf(q, 1, {"&"})
           piece == SubSeq(q, 1, e - 1)
           eq == IndexOf(piece, 1, {"="})
           pair == <<UrlencodedDecode(SubSeq(piece, 1, eq - 1)),
                     UrlencodedDecode(SubSeq(piece, eq + 1, Len(piece)))>>
           rest == UrlencodedParse(SubSeq(q, e + 1, Len(q)))
       IN IF piece = <<>> THEN rest ELSE <<pair>> \o rest

\* url.searchParams: the list of the URL's query
SearchParams(url) == IF url.hasQuery THEN UrlencodedParse(url.query) ELSE <<>>

\* url.searchParams.append(name, value): append to the list, then set the
\* URL's query to the list's serialization
SearchParamsAppend(url, name, value) ==
  [url EXCEPT !.hasQuery = TRUE,
              !.query = UrlencodedSerialize(Append(SearchParams(url), <<name, value>>))]

(***************************************************************************)
(* JavaScript values of the options, and String(value).                    *)
(***************************************************************************)
Undefined == [t |-> "undefined", v |-> <<>>]
JsString(s) == [t |-> "string", v |-> s]
JsBoolean(b) == [t |-> "boolean", v |-> b]
\* an ApisListOptions object; a property left out reads as undefined
JsOptions(name, preferred) == [t |-> "object", v |-> [name |-> name, preferred |-> preferred]]

\* String(value)
String(value) ==
  CASE value.t = "string" -> value.v
    [] value.t = "boolean" ->
         IF value.v THEN <<"t", "r", "u", "e">> ELSE <<"f", "a", "l", "s", "e">>
    [] value.t = "undefined" -> <<"u", "n", "d", "e", "f", "i", "n", "e", "d">>

(***************************************************************************)
(* The two request URLs.                                                   *)
(***************************************************************************)
\* the two components in each other's place
ApisGetRestTemplateSwapped(base, api, version) ==
  base \o <<"a", "p", "i", "s", "/">> \o version \o <<"/">> \o api \o <<"/", "r", "e", "s", "t">>

\* `${this.#baseUrl}apis/${api}/${version}/rest`
ApisGetRestTemplate(base, api, version) ==
  base \o <<"a", "p", "i", "s", "/">> \o api \o <<"/">> \o version \o <<"/", "r", "e", "s", "t">>

\* the url of apisGetRest
ApisGetRestUrl(base, api, version) == NewURL(ApisGetRestTemplate(base, api, version))

\* `${this.#baseUrl}apis`
ApisListTemplate(base) == base \o <<"a", "p", "i", "s">>

\* a test of truthiness, if (value), in place of the comparison
Truthy(value) ==
  CASE value.t = "string" -> value.v # <<>>
    [] value.t = "boolean" -> value.v
    [] value.t = "undefined" -> FALSE

\* value !== undefined
NotUndefined(value) == value.t # "undefined"

\* opts: ApisListOptions = {}
ApisListDefault(opts) == IF opts.t = "undefined" THEN JsOptions(Undefined, Undefined) ELSE opts

\* the url of apisList, after its two conditional appends
ApisListUrl(base, arg) ==
  LET opts == ApisListDefault(arg)
      url0 == NewURL(ApisListTemplate(base))
      url1 == IF NotUndefined(opts.v.name)
                THEN SearchParamsAppend(url0, <<"n", "a", "m", "e">>, String(opts.v.name))
                ELSE url0
  IN IF NotUndefined(opts.v.preferred)
       THEN SearchParamsAppend(url1, <<"p", "r", "e", "f", "e", "r", "r", "e", "d">>,
                               String(opts.v.preferred))
       ELSE url1

\* a request with another method and a body
RequestInitPost == [method |-> "POST", body |-> "{}"]

\* the second argument of auth.request
RequestInit == [method |-> "GET"]

(***************************************************************************)
(* JSON values, as auth.request returns them parsed: tagged, an object a   *)
(* function from the property names it holds (an absent property is not in *)
(* its domain).                                                            *)
(***************************************************************************)
JStr(s) == [t |-> "string", v |-> s]
JBool(b) == [t |-> "boolean", v |-> b]
JArr(a) == [t |-> "array", v |-> a]
JObj(o) == [t |-> "object", v |-> o]

\* {"kind":"discovery#restDescription","id":"x:v1","schemas":{"Foo":{"id":"Foo",
\*  "properties":{"bar":{"type":"string"}}}}}
DocFoo ==
  JObj([kind |-> JStr("discovery#restDescription"), id |-> JStr("x:v1"),
        schemas |-> JObj([Foo |-> JObj([id |-> JStr("Foo"),
                            properties |-> JObj([bar |-> JObj([type |-> JStr("string")])])])])])

\* a document whose schema Bar refers to its schema Foo by name
DocRef ==
  JObj([kind |-> JStr("discovery#restDescription"),
        schemas |-> JObj([Foo |-> JObj([id |-> JStr("Foo"), type |-> JStr("object")]),
                          Bar |-> JObj("$ref" :> JStr("Foo"))])])

\* a directory list of one entry
DocList ==
  JObj([kind |-> JStr("discovery#directoryList"), discoveryVersion |-> JStr("v1"),
        items |-> JArr(<<JObj([id |-> JStr("drive:v3"), name |-> JStr("drive"),
                               preferred |-> JBool(TRUE)])>>)])

\* valid JSON of neither shape: schemas and items are strings
DocBadShape ==
  JObj([kind |-> JStr("discovery#restDescription"), schemas |-> JStr("oops"),
        items |-> JStr("oops")])

Docs == {DocFoo, DocRef, DocList, DocBadShape}

\* the failures auth.request rejects with
JsError(name) == [t |-> "error", v |-> name]
Errors == {JsError("NetworkError"), JsError("SyntaxError")}

\* the JSON type of each property of interface RestDescription
RestDescriptionShape ==
  [auth |-> "object", basePath |-> "string", baseUrl |-> "string", batchPath |-> "string",
   canonicalName |-> "string", description |-> "string", discoveryVersion |-> "string",
   documentationLink |-> "string", etag |-> "string", exponentialBackoffDefault |-> "boolean",
   features |-> "array", icons |-> "object", id |-> "string", kind |-> "string",
   labels |-> "array", methods |-> "object", name |-> "string", ownerDomain |-> "string",
   ownerName |-> "string", packagePath |-> "string", parameters |-> "object",
   protocol |-> "string", resources |-> "object", revision |-> "string", rootUrl |-> "string",
   schemas |-> "object", servicePath |-> "string", title |-> "string", version |-> "string"]

\* the JSON type of each property of interface DirectoryList
DirectoryListShape == [discoveryVersion |-> "string", items |-> "array", kind |-> "string"]

\* a value is of an interface when it is an object each of whose properties
\* the interface declares has the declared type
MatchesShape(data, shape) ==
  /\ data.t = "object"
  /\ \A k \in DOMAIN data.v : k \in DOMAIN shape => data.v[k].t = shape[k]

\* the declared result type of each operation
ResultShape(op) == IF op = "apisGetRest" THEN RestDescriptionShape ELSE DirectoryListShape

(***************************************************************************)
(* The client.  calls: the calls made so far, each the promise an async    *)
(* method returned; requests: the calls of auth.request made so far, each  *)
(* the promise the transport returned.                                     *)
(***************************************************************************)
Init ==
  /\ auth \in Auths
  /\ baseUrl \in BaseUrls
  /\ calls = <<>>
  /\ requests = <<>>

\* this.#auth.request(url.href, { method: "GET" }), called by call number caller
AuthRequest(caller, href) ==
  [caller |-> caller, auth |-> auth, url |-> href, init |-> RequestInit,
   state |-> "pending", outcome |-> Undefined]

\* an async method up to its await: the call is left waiting for request req
Awaiting(op, args, req) ==
  [op |-> op, args |-> args, pc |-> "await", req |-> req, result |-> Undefined]

\* a client that keeps the results of earlier calls and answers from them
ApisGetRestCached(api, version) ==
  /\ Len(calls) < MaxCalls
  /\ IF \E e \in 1..Len(calls) :
          calls[e].op = "apisGetRest" /\ calls[e].args = <<api, version>> /\ calls[e].pc = "returned"
       THEN LET e == CHOOSE e \in 1..Len(calls) :
                       calls[e].op = "apisGetRest" /\ calls[e].args = <<api, version>>
                       /\ calls[e].pc = "returned"
            IN calls' = Append(calls, calls[e]) /\ UNCHANGED requests
       ELSE /\ requests' = Append(requests,
                              AuthRequest(Len(calls) + 1, Href(ApisGetRestUrl(baseUrl, api, version))))
            /\ calls' = Append(calls, Awaiting("apisGetRest", <<api, version>>, Len(requests) + 1))
  /\ UNCHANGED <<auth, baseUrl>>

\* apisGetRest(api, version), up to its await
ApisGetRest(api, version) ==
  /\ Len(calls) < MaxCalls
  /\ requests' = Append(requests,
                   AuthRequest(Len(calls) + 1, Href(ApisGetRestUrl(baseUrl, api, version))))
  /\ calls' = Append(calls, Awaiting("apisGetRest", <<api, version>>, Len(requests) + 1))
  /\ UNCHANGED <<auth, baseUrl>>

\* a client that builds the URL in its own field
ApisListKeepsUrl(arg) ==
  /\ Len(calls) < MaxCalls
  /\ requests' = Append(requests, AuthRequest(Len(calls) + 1, Href(ApisListUrl(baseUrl, arg))))
  /\ calls' = Append(calls, Awaiting("apisList", <<arg>>, Len(requests) + 1))
  /\ baseUrl' = ApisListTemplate(baseUrl)
  /\ UNCHANGED auth

\* apisList(opts), up to its await
ApisList(arg) ==
  /\ Len(calls) < MaxCalls
  /\ requests' = Append(requests, AuthRequest(Len(calls) + 1, Href(ApisListUrl(baseUrl, arg))))
  /\ calls' = Append(calls, Awaiting("apisList", <<arg>>, Len(requests) + 1))
  /\ UNCHANGED <<auth, baseUrl>>

\* the transport settles request r: fulfilled with the parsed JSON, or rejected
AuthRequestSettle(r, state, outcome) ==
  /\ requests[r].state = "pending"
  /\ requests' = [requests EXCEPT ![r].state = state, ![r].outcome = outcome]
  /\ UNCHANGED <<auth, baseUrl, calls>>

\* a decoder that fills in an absent auth with an empty one
ReturnWithDefaults(data) ==
  IF data.t = "object" /\ "auth" \notin DOMAIN data.v
    THEN JObj(data.v @@ ("auth" :> JObj("oauth2" :> JObj("scopes" :> JArr(<<>>)))))
    ELSE data

\* return data as any: the cast is erased, the value is returned as it is
ReturnAsAny(data) == data

\* a catch that turns a failure into an empty result
ContinueSwallow(call, request) ==
  IF request.state = "fulfilled"
    THEN [call EXCEPT !.pc = "returned", !.result = request.outcome]
    ELSE [call EXCEPT !.pc = "returned", !.result = JObj("items" :> JArr(<<>>))]

\* a decoder that keeps the properties of the expected type and drops the rest
ContinueBestEffort(call, request) ==
  IF request.state = "fulfilled"
    THEN IF request.outcome.t = "object"
           THEN LET o == request.outcome.v
                    shape == ResultShape(call.op)
                    kept == {k \in DOMAIN o : k \in DOMAIN shape => o[k].t = shape[k]}
                IN [call EXCEPT !.pc = "returned", !.result = JObj([k \in kept |-> o[k]])]
           ELSE [call EXCEPT !.pc = "thrown", !.result = JsError("TypeError")]
    ELSE [call EXCEPT !.pc = "thrown", !.result = request.outcome]

\* the rest of an async method once the awaited request has settled: await
\* gives the value, which is returned, or throws the rejection, which nothing catches
Continue(call, request) ==
  IF request.state = "fulfilled"
    THEN [call EXCEPT !.pc = "returned", !.result = ReturnAsAny(request.outcome)]
    ELSE [call EXCEPT !.pc = "thrown", !.result = request.outcome]

\* a client that asks again when the request failed
AwaitResumeRetry(c) ==
  /\ calls[c].pc = "await"
  /\ requests[calls[c].req].state # "pending"
  /\ IF requests[calls[c].req].state = "rejected" /\ Len(requests) < 2 * MaxCalls
       THEN /\ requests' = Append(requests, AuthRequest(c, requests[calls[c].req].url))
            /\ calls' = [calls EXCEPT ![c].req = Len(requests) + 1]
       ELSE /\ calls' = [calls EXCEPT ![c] = Continue(calls[c], requests[calls[c].req])]
            /\ UNCHANGED requests
  /\ UNCHANGED <<auth, baseUrl>>

\* call c resumes after its await
AwaitResume(c) ==
  /\ calls[c].pc = "await"
  /\ requests[calls[c].req].state # "pending"
  /\ calls' = [calls EXCEPT ![c] = Continue(calls[c], requests[calls[c].req])]
  /\ UNCHANGED <<auth, baseUrl, requests>>

(***************************************************************************)
(* Spec: up to MaxCalls calls on one client, in flight together, with a    *)
(* few arguments and every outcome of the transport.                       *)
(***************************************************************************)
SomeApis == {<<"a">>, <<"b">>}
SomeVersions == {<<"v", "1">>}
SomeListArgs == {JsOptions(JsString(<<"d", "r", "i", "v", "e">>), Undefined)}

Next ==
  \/ \E api \in SomeApis, version \in SomeVersions : ApisGetRest(api, version)
  \/ \E arg \in SomeListArgs : ApisList(arg)
  \/ \E r \in 1..Len(requests), data \in Docs : AuthRequestSettle(r, "fulfilled", data)
  \/ \E r \in 1..Len(requests), error \in Errors : AuthRequestSettle(r, "rejected", error)
  \/ \E c \in 1..Len(calls) : AwaitResume(c)

Spec == Init /\ [][Next]_vars

(***************************************************************************)
(* SpecUrl: one call, its arguments drawn from every string over an        *)
(* alphabet of the characters the URL parser treats differently.           *)
(***************************************************************************)
PathAlphabet == {"a", ".", "/", Backslash, "?", "#", " "}
ApiStrings == StringsUpTo(PathAlphabet, MaxApiLen)
\* the versions: plain ones, the empty one, and one for each special character
VersionStrings ==
  {<<"v", "1">>, <<"a">>, <<"a", "/", "a">>, <<>>, <<".">>, <<".", ".">>,
   <<"?">>, <<"#">>, <<" ">>, <<Backslash>>}

NameAlphabet == {"a", " ", "&", "=", "?", "#", "+", "/"}
Drive == <<"d", "r", "i", "v", "e">>
\* a name that holds a separator and the other option's key
NameWithPreferred == <<"&", "p", "r", "e", "f", "e", "r", "r", "e", "d", "=", "t", "r", "u", "e">>
NameValues ==
  {Undefined} \cup
  {JsString(s) : s \in StringsUpTo(NameAlphabet, MaxNameLen) \cup {Drive, NameWithPreferred}}
PreferredValues == {Undefined, JsBoolean(TRUE), JsBoolean(FALSE)}
ListArgs == {Undefined} \cup {JsOptions(n, p) : n \in NameValues, p \in PreferredValues}

NextUrl ==
  \/ \E api \in ApiStrings, version \in VersionStrings : calls = <<>> /\ ApisGetRest(api, version)
  \/ \E arg \in ListArgs : calls = <<>> /\ ApisList(arg)
  \/ \E r \in 1..Len(requests) : AuthRequestSettle(r, "fulfilled", DocFoo)
  \/ \E r \in 1..Len(requests) : AuthRequestSettle(r, "rejected", JsError("NetworkError"))
  \/ \E c \in 1..Len(calls) : AwaitResume(c)

SpecUrl == Init /\ [][NextUrl]_vars

(***************************************************************************)
(* What the claims speak of.                                               *)
(***************************************************************************)
CallIds == 1..Len(calls)
RequestOf(c) == requests[calls[c].req]
IsGetRest(c) == calls[c].op = "apisGetRest"
IsList(c) == calls[c].op = "apisList"

\* the base URL followed by apis/{api}/{version}/rest, character for character
VerbatimRestUrl(base, api, version) ==
  base \o <<"a", "p", "i", "s", "/">> \o api \o <<"/">> \o version \o <<"/", "r", "e", "s", "t">>

\* the part of an href that is its origin and path: up to the first ? or #
PathPart(href) == SubSeq(href, 1, IndexOf(href, 1, {"?", "#"}) - 1)

\* the query string of an href: after its first ?, up to a #
QueryString(href) ==
  LET e == IndexOf(href, 1, {"#"})
      q == IndexOf(href, 1, {"?"})
  IN IF q >= e THEN <<>> ELSE SubSeq(href, q + 1, e - 1)

HasQuery(href) == IndexOf(href, 1, {"?"}) < IndexOf(href, 1, {"#"})

\* the name=value pairs of an href's query, decoded
QueryPairs(href) == UrlencodedParse(QueryString(href))
QueryKeys(href) == {QueryPairs(href)[i][1] : i \in 1..Len(QueryPairs(href))}

KeyName == <<"n", "a", "m", "e">>
KeyPreferred == <<"p", "r", "e", "f", "e", "r", "r", "e", "d">>

RECURSIVE Segments(_)
Segments(s) ==
  LET e == IndexOf(s, 1, {"/"})
  IN IF e > Len(s) THEN {s} ELSE {SubSeq(s, 1, e - 1)} \cup Segments(SubSeq(s, e + 1, Len(s)))

\* a path component the URL parser passes through unchanged: unreserved
\* characters and /, with no . or .. segment
PlainChars == Letters \cup Digits \cup {"-", "_", "~", ".", "/"}
Plain(s) ==
  /\ \A i \in 1..Len(s) : s[i] \in PlainChars
  /\ Segments(s) \cap {<<".">>, <<".", ".">>} = {}

OptionsOf(c) == IF calls[c].args[1].t = "undefined" THEN [name |-> Undefined, preferred |-> Undefined]
                ELSE calls[c].args[1].v

\* C2: the query string of apisList's request URL holds the key name if and
\* only if name was supplied, and the key preferred if and only if preferred
\* was supplied; with nothing supplied (apisList() and apisList({})) the URL has
\* no query string, and with only name "drive" the query string is name=drive.
C2_KeysIffSupplied ==
  \A c \in CallIds : IsList(c) =>
    LET href == RequestOf(c).url
        opts == OptionsOf(c)
    IN /\ (KeyName \in QueryKeys(href)) <=> (opts.name # Undefined)
       /\ (KeyPreferred \in QueryKeys(href)) <=> (opts.preferred # Undefined)
       /\ (opts.name = Undefined /\ opts.preferred = Undefined) =>
             (~HasQuery(href) /\ href = baseUrl \o <<"a", "p", "i", "s">>)
       /\ (opts.name = JsString(Drive) /\ opts.preferred = Undefined) =>
             QueryString(href) = <<"n", "a", "m", "e", "=", "d", "r", "i", "v", "e">>

C2_Witness ==
  \E c \in CallIds :
    /\ IsList(c)
    /\ OptionsOf(c).name = JsString(NameWithPreferred)
    /\ OptionsOf(c).preferred = Undefined
    /\ QueryKeys(RequestOf(c).url) = {KeyName}

\* C3: with preferred explicitly false the query string of apisList's request
\* URL carries preferred=false (exactly that when name is unset), and with
\* preferred unset it carries no preferred key.
C3_ExplicitFalseSerialized ==
  \A c \in CallIds : IsList(c) =>
    LET href == RequestOf(c).url
        opts == OptionsOf(c)
        pair == <<KeyPreferred, <<"f", "a", "l", "s", "e">> >>
    IN /\ opts.preferred = JsBoolean(FALSE) =>
             /\ \E i \in 1..Len(QueryPairs(href)) : QueryPairs(href)[i] = pair
             /\ opts.name = Undefined =>
                  QueryString(href) = <<"p", "r", "e", "f", "e", "r", "r", "e", "d", "=",
                                        "f", "a", "l", "s", "e">>
       /\ opts.preferred = Undefined =>
             \A i \in 1..Len(QueryPairs(href)) : QueryPairs(href)[i][1] # KeyPreferred

C3_Witness ==
  \E c \in CallIds :
    /\ IsList(c)
    /\ OptionsOf(c) = [name |-> Undefined, preferred |-> JsBoolean(FALSE)]
    /\ RequestOf(c).url = baseUrl \o <<"a", "p", "i", "s", "?", "p", "r", "e", "f", "e", "r", "r", "e", "d",
                                       "=", "f", "a", "l", "s", "e">>

\* C4: a call whose request the transport rejected never returns a value: it
\* throws, and what it throws is the transport's error itself.
C4_TransportErrorPropagates ==
  \A c \in CallIds :
    /\ (RequestOf(c).state = "rejected" /\ calls[c].pc # "await") =>
         (calls[c].pc = "thrown" /\ calls[c].result = RequestOf(c).outcome)
    /\ calls[c].pc = "thrown" =>
         (RequestOf(c).state = "rejected" /\ calls[c].result = RequestOf(c).outcome)

C4_Witness ==
  \E c \in CallIds :
    /\ calls[c].pc = "thrown"
    /\ RequestOf(c).state = "rejected"
    /\ calls[c].result = JsError("NetworkError")

\* the request URL the configuration and a call's own arguments give
OwnUrl(c) ==
  IF IsGetRest(c) THEN Href(ApisGetRestUrl(baseUrl, calls[c].args[1], calls[c].args[2]))
  ELSE Href(ApisListUrl(baseUrl, calls[c].args[1]))

\* every call's request and result are its own
CallsIndependent ==
  \A c \in CallIds :
    /\ RequestOf(c).caller = c
    /\ RequestOf(c).auth = auth
    /\ RequestOf(c).url = OwnUrl(c)
    /\ calls[c].pc # "await" => calls[c].result = RequestOf(c).outcome

\* C5: under every interleaving of calls in flight together, no step changes
\* the client's authentication capability or base URL, and each call's request
\* URL and result are those its own arguments and its own request give.
C5_ConfigurationFixed == [][auth' = auth /\ baseUrl' = baseUrl]_vars /\ []CallsIndependent

\* two calls with different arguments in flight together, the later one
\* finished first
C5_Witness ==
  \E c1, c2 \in CallIds :
    /\ c1 < c2
    /\ <<calls[c1].op, calls[c1].args>> # <<calls[c2].op, calls[c2].args>>
    /\ calls[c1].pc = "await"
    /\ calls[c2].pc = "returned"

\* C6: a call that returns returns exactly the value the transport gave: a
\* property absent from it stays absent, and a $ref stays a name.
C6_ReturnsTransportValue ==
  \A c \in CallIds : calls[c].pc = "returned" =>
    /\ RequestOf(c).state = "fulfilled"
    /\ calls[c].result = RequestOf(c).outcome
    /\ (RequestOf(c).outcome = DocFoo => "auth" \notin DOMAIN calls[c].result.v)
    /\ (RequestOf(c).outcome = DocRef =>
          calls[c].result.v.schemas.v.Bar = JObj("$ref" :> JStr("Foo")))

C6_Witness ==
  /\ \E c \in CallIds : calls[c].pc = "returned" /\ calls[c].result = DocFoo
  /\ \E c \in CallIds : calls[c].pc = "returned" /\ calls[c].result = DocRef

RequestsBy(c) == {r \in 1..Len(requests) : requests[r].caller = c}

\* C7: every call has made exactly one request, also once that request has
\* failed and the call has thrown.
C7_OneRequestPerCall ==
  \A c \in CallIds :
    /\ Cardinality(RequestsBy(c)) = 1
    /\ RequestOf(c).state = "rejected" => RequestsBy(c) = {calls[c].req}

C7_Witness ==
  \E c \in CallIds :
    /\ calls[c].pc = "thrown"
    /\ RequestsBy(c) = {calls[c].req}
    /\ Len(calls) = MaxCalls

\* C8: every request handed to the transport has method GET and no body.
C8_GetWithoutBody ==
  \A r \in 1..Len(requests) :
    /\ requests[r].init.method = "GET"
    /\ "body" \notin DOMAIN requests[r].init

C8_Witness ==
  /\ \E r \in 1..Len(requests) : calls[requests[r].caller].op = "apisGetRest"
  /\ \E r \in 1..Len(requests) : calls[requests[r].caller].op = "apisList"

\* the transport's value is not of the call's declared result type
ShapeMismatch(c) ==
  /\ RequestOf(c).state = "fulfilled"
  /\ ~MatchesShape(RequestOf(c).outcome, ResultShape(calls[c].op))

\* C9 as stated: when the response does not match the expected shape the call
\* fails instead of returning a value.
C9_MismatchFails ==
  \A c \in CallIds : ShapeMismatch(c) => calls[c].pc # "returned"

\* C9 amended: a decoding failure the transport reports (its SyntaxError) is
\* thrown to the caller as it is; a response that is valid JSON and not of the
\* expected shape is not detected: the call returns that value whole, never a
\* part of it.
C9_MismatchReturnedWhole ==
  \A c \in CallIds : calls[c].pc # "await" =>
    /\ (RequestOf(c).state = "rejected" /\ RequestOf(c).outcome = JsError("SyntaxError")) =>
         (calls[c].pc = "thrown" /\ calls[c].result = JsError("SyntaxError"))
    /\ ShapeMismatch(c) =>
         (calls[c].pc = "returned" /\ calls[c].result = RequestOf(c).outcome)

C9_Witness ==
  /\ \E c \in CallIds : IsGetRest(c) /\ calls[c].pc = "returned" /\ calls[c].result = DocBadShape
  /\ \E c \in CallIds : calls[c].pc = "thrown" /\ calls[c].result = JsError("SyntaxError")

\* C10: the requests made are as many as the calls made, and of two calls with
\* the same arguments each has a request of its own and returns what that
\* request gave.
C10_NoCaching ==
  /\ Len(requests) = Len(calls)
  /\ \A c1, c2 \in CallIds :
       (c1 < c2 /\ calls[c1].op = calls[c2].op /\ calls[c1].args = calls[c2].args) =>
         /\ calls[c1].req # calls[c2].req
         /\ requests[calls[c2].req].caller = c2
         /\ calls[c2].pc = "returned" => calls[c2].result = requests[calls[c2].req].outcome

\* the same call twice, the second after the first returned, with another result
C10_Witness ==
  \E c1, c2 \in CallIds :
    /\ c1 < c2
    /\ calls[c1].op = calls[c2].op /\ calls[c1].args = calls[c2].args
    /\ calls[c1].pc = "returned" /\ calls[c2].pc = "returned"
    /\ calls[c1].result = DocFoo /\ calls[c2].result = DocRef

====
